---- MODULE Spec2Model ----
(***************************************************************************)
(* Model of src/src/App.tsx: the gacha session simulator                   *)
(* (simulateOneSession) and the aggregation run (runSimulation) that       *)
(* drives it and publishes the distribution and the summary statistics.    *)
(*                                                                         *)
(* Probabilities are kept in hundredths: the configuration holds percent   *)
(* values and the code divides them by 100 (lines 54-56), so the code's    *)
(* 1.0 is One = 100 here and a Math.random() value r is the integer 100*r  *)
(* in 0..99.  Counters are the code's integers.                            *)
(*                                                                         *)
(* pc is the place of the one thread of control: "idle" (no callback       *)
(* running), "while" (the loop test of line 147), "loop" (the loop test of *)
(* line 58), "guarantee" (line 66), "coin" (line 94), "returned" (the      *)
(* session's value is back in line 148).  The locals of a call are put     *)
(* back to their initial values when the call is over.  rngCalls counts    *)
(* the Math.random() calls made for the current draw, offTarget the        *)
(* non-target rare items of the current session.                           *)
(*                                                                         *)
(* The configuration is any value the form can have left in the state      *)
(* `config` (handleConfigChange, lines 128-134) before the run is          *)
(* triggered; a run works on the configuration its closure holds (line     *)
(* 195).                                                                   *)
(***************************************************************************)
EXTENDS Integers, Sequences, FiniteSets, TLC

(* ------------------------------ bounds --------------------------------- *)
MaxGuarantee == 3
MaxTotalPulls == 3
MaxOffTarget == 1
MaxTape == 4

BaseRate6Vals == {0, 40, 100}
BaseRate5Vals == {0, 30}
PityStart6Vals == {0, 1}
PityInc6Vals == {0, 30}
HardPity6Vals == {1, 2, 11}
HardPity5Vals == {1, 2}
RngVals == {0, 50, 99}

(* --------------------------- program constants ------------------------- *)
One == 100
Half == 50

Configs ==
    [ baseRate6 : BaseRate6Vals,
      baseRate5 : BaseRate5Vals,
      pityStart6 : PityStart6Vals,
      pityInc6 : PityInc6Vals,
      hardPity6 : HardPity6Vals,
      hardPity5 : HardPity5Vals,
      targetGuarantee : 0..MaxGuarantee,
      targetTotalPulls : 0..MaxTotalPulls ]

\* The configuration of section 8 of the specification in which only the
\* absolute guarantee ends a session: no rare-tier probability, no
\* escalation, a hard pity out of reach, targetGuarantee = 50.
GuaranteeOnlyConfigs ==
    [ baseRate6 : {0},
      baseRate5 : BaseRate5Vals,
      pityStart6 : PityStart6Vals,
      pityInc6 : {0},
      hardPity6 : {1000},
      hardPity5 : HardPity5Vals,
      targetGuarantee : {50},
      targetTotalPulls : {0} ]

\* The configurations of the sessions run on their own.
SessionConfigs == Configs \cup GuaranteeOnlyConfigs

\* No session of the code as written gets this far (see the guarantee and
\* the hard pity); the guard on it keeps a faulty variant finite.
MaxHardPity6 == CHOOSE h \in HardPity6Vals : \A k \in HardPity6Vals : k <= h
MaxSessionGuarantee ==
    CHOOSE g \in {c.targetGuarantee : c \in SessionConfigs} :
        \A c \in SessionConfigs : c.targetGuarantee <= g
MaxPulls == (MaxOffTarget + 2) * (MaxHardPity6 + 1) + MaxSessionGuarantee

\* The configurations of the aggregation runs: the common tier and the start
\* of the escalation are held at one value each, being varied in the sessions
\* run on their own (SessionInit).
RunConfigs ==
    { c \in Configs : c.pityStart6 = 1 /\ c.baseRate5 = 30 /\ c.hardPity5 = 2 }

(* ------------------------------ JS numbers ----------------------------- *)
\* A JavaScript number that may be a fraction or not a number at all.
Num(n) == [kind |-> "number", num |-> n, den |-> 1]
NaN == [kind |-> "NaN", num |-> 0, den |-> 1]
Infinity == [kind |-> "Infinity", num |-> 0, den |-> 1]
NegInfinity == [kind |-> "-Infinity", num |-> 0, den |-> 1]
Undefined == [kind |-> "undefined", num |-> 0, den |-> 1]
Null == [kind |-> "null"]

\* a / b for integers a >= 0, b >= 0
JsDiv(a, b) ==
    IF b # 0 THEN [kind |-> "number", num |-> a, den |-> b]
    ELSE IF a = 0 THEN NaN ELSE Infinity

\* x * 100
JsTimes100(x) ==
    IF x.kind = "number" THEN [x EXCEPT !.num = x.num * 100] ELSE x

\* x.toFixed(d), with scale = 10^d: the decimal string, kept as the rounded
\* number of 1/scale units ("NaN" for NaN)
ToFixed(x, scale) ==
    IF x.kind = "number"
    THEN [kind |-> "number",
          num |-> (2 * x.num * scale + x.den) \div (2 * x.den),
          den |-> scale]
    ELSE x

(* ---------------------------- session simulator ------------------------ *)
VARIABLES cfg, loading, result, timers, pc,
          pulls, pityCounter6, pityCounter5, gotTarget, ret,
          rngCalls, offTarget,
          totalPulls, sessionCount, counts, pullsArray, triggeredGuaranteeCount,
          playback, traces

vars == << cfg, loading, result, timers, pc,
           pulls, pityCounter6, pityCounter5, gotTarget, ret,
           rngCalls, offTarget,
           totalPulls, sessionCount, counts, pullsArray, triggeredGuaranteeCount,
           playback, traces >>

uiVars == << cfg, loading, result, timers >>
aggVars == << totalPulls, sessionCount, counts, pullsArray, triggeredGuaranteeCount >>
sessionVars == << pulls, pityCounter6, pityCounter5, gotTarget, ret, rngCalls, offTarget >>

\* The uniform source of lines 85 and 94.  playback.on tells whether it has
\* been replaced by a playback list; playback.list is the list and
\* playback.at the place of the value to be handed out next.  traces holds,
\* for a session run on a playback list, the states it has stepped through,
\* one sequence for each run on the list.
playVars == << playback, traces >>
Live == [on |-> FALSE, list |-> << >>, at |-> 1]

\* Faulty variant of lines 85 and 94: the source not replaced by the list.
Uniform_NotReplaced(p) == RngVals

\* lines 85 and 94: the values Math.random() can return
Uniform(p) ==
    IF p.on THEN {p.list[i] : i \in {p.at} \cap DOMAIN p.list} ELSE RngVals

\* a value has been taken from the source
Advance(p) == IF p.on THEN [p EXCEPT !.at = @ + 1] ELSE p

\* the state of a session as an observer of the call sees it
Snapshot ==
    [ cfg |-> cfg, pc |-> pc, pulls |-> pulls, pityCounter6 |-> pityCounter6,
      pityCounter5 |-> pityCounter5, gotTarget |-> gotTarget, ret |-> ret ]

\* the state a step of a played-back session leads to is added to its trace
Observed ==
    traces' = IF playback.on
              THEN [traces EXCEPT ![Len(traces)] = Append(@, Snapshot')]
              ELSE traces

\* Faulty variants of line 66: the check left out; the check one draw late.
GuaranteeFires_Never(c, p) == FALSE
GuaranteeFires_Late(c, p) == c.targetGuarantee > 0 /\ p = c.targetGuarantee + 1

\* line 66
GuaranteeFires(c, p) == c.targetGuarantee > 0 /\ p = c.targetGuarantee

\* Faulty variant of lines 71-82: the hard-pity clamp (lines 80-82) left out.
CurrentRate6_NoHardPity(c, p6) ==
    LET base == c.baseRate6
        raised == IF p6 > c.pityStart6
                  THEN base + (p6 - c.pityStart6) * c.pityInc6
                  ELSE base
    IN  IF raised > One THEN One ELSE raised

\* Faulty variant of lines 71-82: the clamp to 1.0 (line 77) left out.
CurrentRate6_NoClamp(c, p6) ==
    LET base == c.baseRate6
        raised == IF p6 > c.pityStart6
                  THEN base + (p6 - c.pityStart6) * c.pityInc6
                  ELSE base
    IN  IF p6 >= c.hardPity6 THEN One ELSE raised

\* Faulty variant of lines 71-82: the hard pity of the common tier read for
\* that of the rare tier (line 80).
CurrentRate6_CommonPity(c, p6) ==
    LET base == c.baseRate6
        raised == IF p6 > c.pityStart6
                  THEN base + (p6 - c.pityStart6) * c.pityInc6
                  ELSE base
        clamped == IF raised > One THEN One ELSE raised
    IN  IF p6 >= c.hardPity5 THEN One ELSE clamped

\* lines 71-82
CurrentRate6(c, p6) ==
    LET base == c.baseRate6
        raised == IF p6 > c.pityStart6
                  THEN base + (p6 - c.pityStart6) * c.pityInc6
                  ELSE base
        clamped == IF raised > One THEN One ELSE raised
    IN  IF p6 >= c.hardPity6 THEN One ELSE clamped

\* Faulty variant of lines 103-107: the hard pity of the common tier left out.
CurrentRate5_NoHardPity(c, p5) == c.baseRate5

\* lines 103-107
CurrentRate5(c, p5) == IF p5 >= c.hardPity5 THEN One ELSE c.baseRate5

\* Faulty variant of line 88: a random value equal to the rate counts as a hit.
IsRare_Inclusive(c, p6, rng) == rng <= CurrentRate6(c, p6)

\* Faulty variant of line 88: the comparison turned round.
IsRare_Inverted(c, p6, rng) == rng >= CurrentRate6(c, p6)

\* line 88
IsRare(c, p6, rng) == rng < CurrentRate6(c, p6)

\* line 114
IsCommon(c, p6, p5, rng) == rng < CurrentRate6(c, p6) + CurrentRate5(c, p5)

\* line 94
IsTarget(coin) == coin < Half

\* lines 49-52: the locals of a fresh call
SessionLocals ==
    /\ pulls = 0
    /\ pityCounter6 = 0
    /\ pityCounter5 = 0
    /\ gotTarget = FALSE
    /\ ret = [pulls |-> 0, triggeredGuarantee |-> FALSE]
    /\ rngCalls = 0
    /\ offTarget = 0

\* Faulty variant of lines 58-61: pulls++ left out.
LoopIncrement_NoPulls ==
    /\ pc = "loop"
    /\ ~gotTarget
    /\ pityCounter6 < MaxPulls
    /\ pityCounter6' = pityCounter6 + 1
    /\ pityCounter5' = pityCounter5 + 1
    /\ rngCalls' = 0
    /\ pc' = "guarantee"
    /\ UNCHANGED << pulls, gotTarget, ret, offTarget >>
    /\ UNCHANGED uiVars
    /\ UNCHANGED aggVars
    /\ UNCHANGED playback
    /\ Observed

\* lines 58-61: the loop test passes and the three counters go up
LoopIncrement ==
    /\ pc = "loop"
    /\ ~gotTarget
    /\ pulls < MaxPulls
    /\ pulls' = pulls + 1
    /\ pityCounter6' = pityCounter6 + 1
    /\ pityCounter5' = pityCounter5 + 1
    /\ rngCalls' = 0
    /\ pc' = "guarantee"
    /\ UNCHANGED << gotTarget, ret, offTarget >>
    /\ UNCHANGED uiVars
    /\ UNCHANGED aggVars
    /\ UNCHANGED playback
    /\ Observed

\* lines 66-68
GuaranteeReturn ==
    /\ pc = "guarantee"
    /\ GuaranteeFires(cfg, pulls)
    /\ ret' = [pulls |-> pulls, triggeredGuarantee |-> TRUE]
    /\ pc' = "returned"
    /\ UNCHANGED << pulls, pityCounter6, pityCounter5, gotTarget, rngCalls, offTarget >>
    /\ UNCHANGED uiVars
    /\ UNCHANGED aggVars
    /\ UNCHANGED playback
    /\ Observed

\* Faulty variant of lines 70-89: the rare-tier outcome resets the common
\* tier's counter too.
DrawRare_ResetsBoth ==
    /\ pc = "guarantee"
    /\ ~GuaranteeFires(cfg, pulls)
    /\ \E rng \in Uniform(playback) :
          /\ IsRare(cfg, pityCounter6, rng)
          /\ pityCounter6' = 0
          /\ pityCounter5' = 0
          /\ rngCalls' = rngCalls + 1
          /\ pc' = "coin"
    /\ UNCHANGED << pulls, gotTarget, ret, offTarget >>
    /\ UNCHANGED uiVars
    /\ UNCHANGED aggVars
    /\ playback' = Advance(playback)
    /\ Observed

\* lines 70-89: the draw is a rare-tier outcome
DrawRare ==
    /\ pc = "guarantee"
    /\ ~GuaranteeFires(cfg, pulls)
    /\ \E rng \in Uniform(playback) :
          /\ IsRare(cfg, pityCounter6, rng)
          /\ pityCounter6' = 0
          /\ rngCalls' = rngCalls + 1
          /\ pc' = "coin"
    /\ UNCHANGED << pulls, pityCounter5, gotTarget, ret, offTarget >>
    /\ UNCHANGED uiVars
    /\ UNCHANGED aggVars
    /\ playback' = Advance(playback)
    /\ Observed

\* lines 94-98: the coin selects the target
CoinTarget ==
    /\ pc = "coin"
    /\ \E coin \in Uniform(playback) :
          /\ IsTarget(coin)
          /\ gotTarget' = TRUE
          /\ rngCalls' = rngCalls + 1
          /\ pc' = "loop"
    /\ UNCHANGED << pulls, pityCounter6, pityCounter5, ret, offTarget >>
    /\ UNCHANGED uiVars
    /\ UNCHANGED aggVars
    /\ playback' = Advance(playback)
    /\ Observed

\* lines 94-98: the coin selects a non-target rare item
CoinOffTarget ==
    /\ pc = "coin"
    /\ offTarget < MaxOffTarget
    /\ \E coin \in Uniform(playback) :
          /\ ~IsTarget(coin)
          /\ offTarget' = offTarget + 1
          /\ rngCalls' = rngCalls + 1
          /\ pc' = "loop"
    /\ UNCHANGED << pulls, pityCounter6, pityCounter5, gotTarget, ret >>
    /\ UNCHANGED uiVars
    /\ UNCHANGED aggVars
    /\ playback' = Advance(playback)
    /\ Observed

\* lines 70-88 and 101-116: no rare-tier outcome; the common-tier check
DrawNoRare ==
    /\ pc = "guarantee"
    /\ ~GuaranteeFires(cfg, pulls)
    /\ \E rng \in Uniform(playback) :
          /\ ~IsRare(cfg, pityCounter6, rng)
          /\ pityCounter5' = IF IsCommon(cfg, pityCounter6, pityCounter5, rng)
                             THEN 0 ELSE pityCounter5
          /\ rngCalls' = rngCalls + 1
          /\ pc' = "loop"
    /\ UNCHANGED << pulls, pityCounter6, gotTarget, ret, offTarget >>
    /\ UNCHANGED uiVars
    /\ UNCHANGED aggVars
    /\ playback' = Advance(playback)
    /\ Observed

\* lines 58 and 119: the loop test fails
LoopExit ==
    /\ pc = "loop"
    /\ gotTarget
    /\ ret' = [pulls |-> pulls, triggeredGuarantee |-> FALSE]
    /\ pc' = "returned"
    /\ UNCHANGED << pulls, pityCounter6, pityCounter5, gotTarget, rngCalls, offTarget >>
    /\ UNCHANGED uiVars
    /\ UNCHANGED aggVars
    /\ UNCHANGED playback
    /\ Observed

SessionNext ==
    \/ LoopIncrement
    \/ GuaranteeReturn
    \/ DrawRare
    \/ CoinTarget
    \/ CoinOffTarget
    \/ DrawNoRare
    \/ LoopExit

\* A direct call of simulateOneSession on any configuration.
SessionInit ==
    /\ cfg \in SessionConfigs
    /\ loading = FALSE
    /\ result = Null
    /\ timers = 0
    /\ pc = "loop"
    /\ SessionLocals
    /\ totalPulls = 0
    /\ sessionCount = 0
    /\ counts = << >>
    /\ pullsArray = << >>
    /\ triggeredGuaranteeCount = 0
    /\ playback = Live
    /\ traces = << >>

SessionSpec == SessionInit /\ [][SessionNext]_vars

\* The call runs to its end: the function is synchronous code that nothing
\* suspends.  That the coin does not select a non-target item for ever is the
\* guard offTarget < MaxOffTarget of CoinOffTarget.
SessionLiveSpec == SessionInit /\ [][SessionNext]_vars /\ WF_vars(SessionNext)

(* --------------------- sessions on a playback list --------------------- *)
\* The playback lists: MaxTape values each.
Tapes == [1..MaxTape -> RngVals]

\* The configurations of the sessions run on a playback list.
PlayConfigs ==
    { c \in Configs : c.pityStart6 = 1 /\ c.targetTotalPulls = 0 }

\* the rare tier and the guarantee of two configurations agree
SameRareTier(c, d) ==
    /\ c.baseRate6 = d.baseRate6
    /\ c.pityStart6 = d.pityStart6
    /\ c.pityInc6 = d.pityInc6
    /\ c.hardPity6 = d.hardPity6
    /\ c.targetGuarantee = d.targetGuarantee
    /\ c.targetTotalPulls = d.targetTotalPulls

\* lines 48-56: simulateOneSession is called again, on the list rewound, with
\* the same configuration or with one that differs in the common tier
Replay ==
    /\ playback.on
    /\ pc = "returned"
    /\ Len(traces) = 1
    /\ \E c \in PlayConfigs :
          /\ SameRareTier(c, cfg)
          /\ cfg' = c
    /\ pulls' = 0
    /\ pityCounter6' = 0
    /\ pityCounter5' = 0
    /\ gotTarget' = FALSE
    /\ ret' = [pulls |-> 0, triggeredGuarantee |-> FALSE]
    /\ rngCalls' = 0
    /\ offTarget' = 0
    /\ pc' = "loop"
    /\ playback' = [playback EXCEPT !.at = 1]
    /\ traces' = Append(traces, << >>)
    /\ UNCHANGED << loading, result, timers >>
    /\ UNCHANGED aggVars

PlayNext ==
    \/ LoopIncrement
    \/ GuaranteeReturn
    \/ DrawRare
    \/ CoinTarget
    \/ CoinOffTarget
    \/ DrawNoRare
    \/ LoopExit
    \/ Replay

\* A call of simulateOneSession with the uniform source replaced by a list.
PlayInit ==
    /\ cfg \in PlayConfigs
    /\ loading = FALSE
    /\ result = Null
    /\ timers = 0
    /\ pc = "loop"
    /\ SessionLocals
    /\ totalPulls = 0
    /\ sessionCount = 0
    /\ counts = << >>
    /\ pullsArray = << >>
    /\ triggeredGuaranteeCount = 0
    /\ playback \in [on : {TRUE}, list : Tapes, at : {1}]
    /\ traces = << << >> >>

PlaySpec == PlayInit /\ [][PlayNext]_vars

(* ------------------------------ aggregator ----------------------------- *)
\* Faulty variant of line 147: one session too many.
LoopContinues_Inclusive(c, total) == total <= c.targetTotalPulls

\* line 147
LoopContinues(c, total) == total < c.targetTotalPulls

\* counts[k] || 0 (lines 152, 164)
CountOf(cnt, k) == IF k \in DOMAIN cnt THEN cnt[k] ELSE 0

\* Faulty variant of line 152: the frequency set, not incremented.
Bump_Overwrite(cnt, k) ==
    [i \in DOMAIN cnt \cup {k} |-> IF i = k THEN 1 ELSE cnt[i]]

\* line 152
Bump(cnt, k) ==
    [i \in DOMAIN cnt \cup {k} |-> IF i = k THEN CountOf(cnt, k) + 1 ELSE cnt[i]]

\* line 157: Math.max over the keys; Math.max() of nothing is -Infinity
MaxPull(cnt) ==
    IF DOMAIN cnt = {} THEN NegInfinity
    ELSE Num(CHOOSE m \in DOMAIN cnt : \A k \in DOMAIN cnt : k <= m)

\* line 160: Math.max(maxPull, config.targetGuarantee)
ChartMax(cnt, c) ==
    LET m == MaxPull(cnt)
    IN  IF m.kind = "number" /\ m.num > c.targetGuarantee
        THEN m.num ELSE c.targetGuarantee

\* Faulty variant of line 167: the test of the frequency left out.
Keep_NoCount(c, i, count) == i <= c.targetGuarantee \/ i % 10 = 0

\* line 167
Keep(c, i, count) == count > 0 \/ i <= c.targetGuarantee \/ i % 10 = 0

\* lines 168-173
Entry(i, count, runningCount, n) ==
    [ pulls |-> i,
      count |-> count,
      percent |-> ToFixed(JsTimes100(JsDiv(count, n)), 1000),
      cumulativePercent |-> ToFixed(JsTimes100(JsDiv(runningCount, n)), 100) ]

\* lines 163-175: the loop from i to chartMax, runningCount being the sum so
\* far and acc the entries pushed so far
RECURSIVE DistLoop(_, _, _, _, _, _)
DistLoop(c, cnt, n, i, runningCount, acc) ==
    IF i > ChartMax(cnt, c) THEN acc
    ELSE LET count == CountOf(cnt, i)
             running == runningCount + count
         IN  DistLoop(c, cnt, n, i + 1, running,
                      IF Keep(c, i, count)
                      THEN Append(acc, Entry(i, count, running, n))
                      ELSE acc)

\* lines 159-175
Distribution(c, cnt, n) == DistLoop(c, cnt, n, 1, 0, << >>)

\* line 180
Sorted(arr) == SortSeq(arr, LAMBDA a, b : a < b)

\* Faulty variant of line 181: the lower of the two middle elements.
MedianIndex_Lower(n) == (n - 1) \div 2

\* line 181: an index past the end reads undefined
MedianIndex(n) == n \div 2
Median(arr) ==
    IF MedianIndex(Len(arr)) + 1 \in 1..Len(arr)
    THEN Num(Sorted(arr)[MedianIndex(Len(arr)) + 1])
    ELSE Undefined

\* lines 183-191
ResultRecord(c, total, n, cnt, arr, triggered) ==
    [ distribution |-> Distribution(c, cnt, n),
      totalSimulations |-> n,
      totalPullsConsumed |-> total,
      averagePulls |-> JsDiv(total, n),
      medianPulls |-> Median(arr),
      pity120Triggered |-> triggered,
      maxPulls |-> MaxPull(cnt) ]

\* Faulty variant of line 234: the trigger never disabled.
TriggerEnabled_Always(l) == TRUE

\* line 234: disabled={loading}
TriggerEnabled(l) == ~l

\* lines 136-139, with the button's disabled={loading} (line 234); a click is
\* handled when no other code is running
RunSimulation ==
    /\ pc = "idle"
    /\ TriggerEnabled(loading)
    /\ loading' = TRUE
    /\ timers' = timers + 1
    /\ UNCHANGED << cfg, result, pc >>
    /\ UNCHANGED sessionVars
    /\ UNCHANGED aggVars
    /\ UNCHANGED playVars

\* lines 139-144: the deferred callback starts
TimeoutFires ==
    /\ pc = "idle"
    /\ timers > 0
    /\ timers' = timers - 1
    /\ totalPulls' = 0
    /\ sessionCount' = 0
    /\ counts' = << >>
    /\ pullsArray' = << >>
    /\ triggeredGuaranteeCount' = 0
    /\ pc' = "while"
    /\ UNCHANGED << cfg, loading, result >>
    /\ UNCHANGED sessionVars
    /\ UNCHANGED playVars

\* lines 147-148 and 49-56: the loop test passes and a session is called
CallSession ==
    /\ pc = "while"
    /\ LoopContinues(cfg, totalPulls)
    /\ pulls' = 0
    /\ pityCounter6' = 0
    /\ pityCounter5' = 0
    /\ gotTarget' = FALSE
    /\ ret' = [pulls |-> 0, triggeredGuarantee |-> FALSE]
    /\ rngCalls' = 0
    /\ offTarget' = 0
    /\ pc' = "loop"
    /\ UNCHANGED uiVars
    /\ UNCHANGED aggVars
    /\ UNCHANGED playVars

\* Faulty variant of line 153: every session counted.
CountGuarantee_Always(n, flag) == n + 1

\* line 153
CountGuarantee(n, flag) == IF flag THEN n + 1 ELSE n

\* lines 148-154
Accumulate ==
    /\ pc = "returned"
    /\ totalPulls' = totalPulls + ret.pulls
    /\ sessionCount' = sessionCount + 1
    /\ counts' = Bump(counts, ret.pulls)
    /\ pullsArray' = Append(pullsArray, ret.pulls)
    /\ triggeredGuaranteeCount' =
          CountGuarantee(triggeredGuaranteeCount, ret.triggeredGuarantee)
    /\ pulls' = 0
    /\ pityCounter6' = 0
    /\ pityCounter5' = 0
    /\ gotTarget' = FALSE
    /\ ret' = [pulls |-> 0, triggeredGuarantee |-> FALSE]
    /\ rngCalls' = 0
    /\ offTarget' = 0
    /\ pc' = "while"
    /\ UNCHANGED uiVars
    /\ UNCHANGED playVars

\* lines 147 and 157-193: the loop test fails; the result is built and set
Publish ==
    /\ pc = "while"
    /\ ~LoopContinues(cfg, totalPulls)
    /\ result' = ResultRecord(cfg, totalPulls, sessionCount, counts,
                              pullsArray, triggeredGuaranteeCount)
    /\ loading' = FALSE
    /\ totalPulls' = 0
    /\ sessionCount' = 0
    /\ counts' = << >>
    /\ pullsArray' = << >>
    /\ triggeredGuaranteeCount' = 0
    /\ pc' = "idle"
    /\ UNCHANGED << cfg, timers >>
    /\ UNCHANGED sessionVars
    /\ UNCHANGED playVars

Init ==
    /\ cfg \in RunConfigs
    /\ loading = FALSE
    /\ result = Null
    /\ timers = 0
    /\ pc = "idle"
    /\ SessionLocals
    /\ totalPulls = 0
    /\ sessionCount = 0
    /\ counts = << >>
    /\ pullsArray = << >>
    /\ triggeredGuaranteeCount = 0
    /\ playback = Live
    /\ traces = << >>

Next ==
    \/ RunSimulation
    \/ TimeoutFires
    \/ CallSession
    \/ LoopIncrement
    \/ GuaranteeReturn
    \/ DrawRare
    \/ CoinTarget
    \/ CoinOffTarget
    \/ DrawNoRare
    \/ LoopExit
    \/ Accumulate
    \/ Publish

Spec == Init /\ [][Next]_vars

(* ======================= properties of a session ======================= *)
Returned == pc = "returned"
Guarantee == cfg.targetGuarantee

\* C1: with targetGuarantee > 0 the draw counter never exceeds targetGuarantee,
\* in no state of the loop, and neither does the pulls value returned.
C1_PullsWithinGuarantee ==
    Guarantee > 0 => pulls <= Guarantee /\ ret.pulls <= Guarantee

\* a session that drew at random and then ran into the guarantee
C1_Witness ==
    /\ Returned
    /\ Guarantee >= 2
    /\ ret.pulls = Guarantee
    /\ offTarget > 0

\* C2: on the draw whose counter equals targetGuarantee (> 0) the session
\* returns (targetGuarantee, true) at once, no random value having been
\* consumed for that draw; a session returns true only in this way, and a
\* session that returns false returns a pulls value other than
\* targetGuarantee.
C2_AtGuarantee ==
    (pc = "guarantee" /\ Guarantee > 0 /\ pulls = Guarantee)
        => /\ rngCalls = 0
           /\ rngCalls' = 0
           /\ pc' = "returned"
           /\ ret' = [pulls |-> Guarantee, triggeredGuarantee |-> TRUE]
C2_Returned ==
    Returned =>
        IF ret.triggeredGuarantee
        THEN Guarantee > 0 /\ ret.pulls = Guarantee /\ rngCalls = 0
        ELSE ret.pulls # Guarantee /\ rngCalls > 0
C2_GuaranteeExactly == [][C2_AtGuarantee]_vars /\ []C2_Returned

\* the guarantee ends a session whose earlier draws consumed random values
C2_Witness ==
    /\ Returned
    /\ ret.triggeredGuarantee
    /\ ret.pulls >= 2
    /\ rngCalls = 0

\* the session of C3: a rare-tier hit on every draw, and a coin that never
\* selected a non-target item
C3_Case == Returned /\ cfg.baseRate6 = One /\ offTarget = 0

\* C3 as claimed: with baseRateRare = 1.0 and the coin always selecting the
\* target, every session returns (1, false), whatever targetGuarantee >= 0.
C3_AlwaysOneDraw ==
    C3_Case => ret = [pulls |-> 1, triggeredGuarantee |-> FALSE]

\* C3 as amended: such a session returns (1, false) unless targetGuarantee is
\* 1, and (1, true) when it is 1: the guarantee check of the first draw comes
\* before its random draw.
C3_OneDrawUnlessGuaranteeOne ==
    C3_Case =>
        ret = [pulls |-> 1, triggeredGuarantee |-> (Guarantee = 1)]

C3_Witness ==
    /\ C3_Case
    /\ Guarantee = MaxGuarantee
    /\ ret = [pulls |-> 1, triggeredGuarantee |-> FALSE]
    /\ rngCalls = 2

\* C4: with targetGuarantee = 0, a finite hardPityRare >= 1 and
\* baseRateRare > 0, every session returns, the coin not selecting a
\* non-target item for ever.
C4_SessionReturns ==
    (Guarantee = 0 /\ cfg.hardPity6 >= 1 /\ cfg.baseRate6 > 0) => <>Returned

\* a session the hard pity alone brought to its rare-tier outcomes: no
\* escalation, every random value above the base rate, one non-target item
C4_Witness ==
    /\ Returned
    /\ Guarantee = 0
    /\ cfg.baseRate6 > 0
    /\ cfg.baseRate6 < One
    /\ cfg.pityInc6 = 0
    /\ cfg.hardPity6 > 1
    /\ offTarget = MaxOffTarget
    /\ ret.pulls = (MaxOffTarget + 1) * cfg.hardPity6

(* ==================== properties of an aggregation run ================= *)
\* the step that ends the aggregation loop and sets the result
Publishes == pc = "while" /\ pc' = "idle"
Published == result # Null
Target == cfg.targetTotalPulls

RECURSIVE SumSeq(_)
SumSeq(arr) == IF arr = << >> THEN 0 ELSE Head(arr) + SumSeq(Tail(arr))

RECURSIVE SumCounts(_)
SumCounts(cnt) ==
    IF DOMAIN cnt = {} THEN 0
    ELSE LET k == CHOOSE x \in DOMAIN cnt : TRUE
         IN  cnt[k] + SumCounts([i \in DOMAIN cnt \ {k} |-> cnt[i]])

\* the number of sessions of arr that took exactly, at most, fewer than i draws
Freq(arr, i) == Cardinality({j \in DOMAIN arr : arr[j] = i})
AtMost(arr, i) == Cardinality({j \in DOMAIN arr : arr[j] <= i})
Below(arr, i) == Cardinality({j \in DOMAIN arr : arr[j] < i})

\* v is the k-th smallest element of arr
IsKthSmallest(arr, k, v) == Below(arr, v) < k /\ k <= AtMost(arr, v)

MaxOf(arr) ==
    IF arr = << >> THEN 0
    ELSE CHOOSE m \in {arr[j] : j \in DOMAIN arr} : \A j \in DOMAIN arr : arr[j] <= m

\* x <= y for JavaScript numbers: false when either is not a number
JsLeq(x, y) ==
    /\ x.kind = "number"
    /\ y.kind = "number"
    /\ x.num * y.den <= y.num * x.den

\* C5: for targetTotalPulls > 0, when the aggregation loop stops the total of
\* the draws is at least targetTotalPulls, the total before the last session
\* was below it, and with targetGuarantee > 0 the total is below
\* targetTotalPulls + targetGuarantee; the published total is that total.
C5_LoopStopped ==
    (pc = "while" /\ Target > 0 /\ totalPulls >= Target)
        => /\ pullsArray # << >>
           /\ totalPulls = SumSeq(pullsArray)
           /\ totalPulls - pullsArray[Len(pullsArray)] < Target
           /\ Guarantee > 0 => totalPulls < Target + Guarantee
C5_PublishedTotal ==
    (Published /\ Target > 0)
        => /\ result.totalPullsConsumed >= Target
           /\ Guarantee > 0 => result.totalPullsConsumed < Target + Guarantee
C5_Overshoot ==
    /\ C5_LoopStopped
    /\ C5_PublishedTotal

\* a run whose last session overshot the budget
C5_Witness ==
    /\ Published
    /\ Target > 1
    /\ result.totalSimulations > 1
    /\ result.totalPullsConsumed > Target

\* C6: with targetTotalPulls <= 0 the run makes zero sessions and publishes a
\* result in which no statistic and no distribution entry is NaN or undefined.
C6_NoNaNPublished ==
    (Published /\ Target <= 0)
        => /\ result.totalSimulations = 0
           /\ result.averagePulls.kind = "number"
           /\ result.medianPulls.kind = "number"
           /\ \A j \in DOMAIN result.distribution :
                 /\ result.distribution[j].percent.kind = "number"
                 /\ result.distribution[j].cumulativePercent.kind = "number"

\* C7 as claimed: the published median is the lower-middle element for an
\* even number of samples (the k-th smallest of 2k) and the middle one for an
\* odd number (2 for {1,1,2,3,5}).
C7_LowerMedianStep ==
    (Publishes /\ pullsArray # << >>)
        => /\ result'.medianPulls.kind = "number"
           /\ IsKthSmallest(pullsArray, (Len(pullsArray) + 1) \div 2,
                            result'.medianPulls.num)
C7_LowerMedian ==
    [][C7_LowerMedianStep]_vars /\ Median(<< 3, 1, 5, 2, 1 >>) = Num(2)

\* C7 as amended: the published median is the element at sorted index
\* floor(n/2) of the n >= 1 samples: the upper-middle element for an even
\* number of samples (the (k+1)-th smallest of 2k) and the middle one for an
\* odd number (2 for {1,1,2,3,5}).
C7_UpperMedianStep ==
    (Publishes /\ pullsArray # << >>)
        => /\ result'.medianPulls.kind = "number"
           /\ IsKthSmallest(pullsArray, Len(pullsArray) \div 2 + 1,
                            result'.medianPulls.num)
C7_UpperMedian ==
    [][C7_UpperMedianStep]_vars /\ Median(<< 3, 1, 5, 2, 1 >>) = Num(2)

\* two sessions of 1 and 2 draws: the median published is 2
C7_Witness ==
    /\ Published
    /\ result.totalSimulations = 2
    /\ result.totalPullsConsumed = 3
    /\ result.medianPulls = Num(2)

\* C8: after every iteration of the aggregation loop the frequencies of the
\* counts mapping sum to the number of sessions run, and to totalSimulations
\* in the published result.
C8_SumIsSessionCount == SumCounts(counts) = sessionCount
C8_PublishStep ==
    Publishes => result'.totalSimulations = SumCounts(counts)
C8_FrequenciesSum == []C8_SumIsSessionCount /\ [][C8_PublishStep]_vars

\* three sessions counted, two of them at one draw-count
C8_Witness ==
    /\ pc = "while"
    /\ sessionCount = 3
    /\ Cardinality(DOMAIN counts) = 2

\* C9: in the published distribution, ordered by draw-count, the cumulative
\* percentage is non-decreasing, the last entry's is 100 (its cumulative count
\* the session count), and each entry's is that of the sessions counted at
\* draw-counts up to its own.
RECURSIVE CountsUpTo(_, _)
CountsUpTo(d, j) == IF j = 0 THEN 0 ELSE d[j].count + CountsUpTo(d, j - 1)
C9_CumulativeReaches100 ==
    Published =>
        LET d == result.distribution
            n == result.totalSimulations
        IN  /\ \A j \in 1..(Len(d) - 1) :
                  /\ d[j].pulls < d[j + 1].pulls
                  /\ JsLeq(d[j].cumulativePercent, d[j + 1].cumulativePercent)
            /\ d # << >> =>
                  /\ CountsUpTo(d, Len(d)) = n
                  /\ d[Len(d)].cumulativePercent =
                        [kind |-> "number", num |-> 10000, den |-> 100]
            /\ \A j \in DOMAIN d :
                  d[j].cumulativePercent =
                     ToFixed(JsTimes100(JsDiv(CountsUpTo(d, j), n)), 100)

\* C10: the distribution has an entry for a draw-count i of 1 ..
\* max(maximum observed, targetGuarantee) exactly when i has a nonzero
\* frequency, or i <= targetGuarantee, or i is a multiple of 10; every
\* entry's count is the observed frequency of its draw-count.
C10_Step ==
    Publishes =>
        LET d == result'.distribution
            hi == IF MaxOf(pullsArray) > Guarantee
                  THEN MaxOf(pullsArray) ELSE Guarantee
        IN  /\ \A i \in 1..hi :
                  (\E j \in DOMAIN d : d[j].pulls = i)
                     <=> (Freq(pullsArray, i) > 0 \/ i <= Guarantee \/ i % 10 = 0)
            /\ \A j \in DOMAIN d :
                  /\ d[j].pulls \in 1..hi
                  /\ d[j].count = Freq(pullsArray, d[j].pulls)
            /\ \A j, k \in DOMAIN d : j < k => d[j].pulls < d[k].pulls
C10_SparseDistribution == [][C10_Step]_vars

\* a distribution that leaves draw-counts out, keeps the filler at 10 with
\* frequency 0 and has an observed draw-count above it
C10_Witness ==
    /\ Published
    /\ Guarantee < 10
    /\ \E j \in DOMAIN result.distribution :
          /\ result.distribution[j].pulls = 10
          /\ result.distribution[j].count = 0
          /\ j < 10
          /\ j < Len(result.distribution)

(* ================== further properties of a session ==================== *)
\* C12: with baseRateRare = 0, pityIncrementRare = 0, a hardPityRare no draw
\* count reaches and targetGuarantee = 50, every session returns (50, true),
\* whatever the random values and the common tier.
C12_Case ==
    /\ cfg.baseRate6 = 0
    /\ cfg.pityInc6 = 0
    /\ cfg.hardPity6 > 50
    /\ Guarantee = 50
C12_GuaranteeOnly ==
    C12_Case =>
        /\ pc # "coin"
        /\ ~gotTarget
        /\ Returned => ret = [pulls |-> 50, triggeredGuarantee |-> TRUE]

\* the 50th draw of such a session has returned, the common tier having hit
C12_Witness ==
    /\ C12_Case
    /\ Returned
    /\ ret.pulls = 50
    /\ cfg.baseRate5 > 0
    /\ pityCounter5 = 1

\* C14: every session returns a pulls value of at least 1.
C14_AtLeastOnePull == Returned => ret.pulls >= 1 /\ pulls = ret.pulls

\* sessions of one draw: by the guarantee, and by a first-draw target
C14_Witness ==
    /\ Returned
    /\ ret.pulls = 1
    /\ cfg.baseRate6 = One
    /\ Guarantee = 0

\* C15: for hardPityRare >= 1, a draw on which the rare-pity counter has
\* reached hardPityRare and that the guarantee does not cut short is a
\* rare-tier outcome and resets the counter; the counter never exceeds
\* hardPityRare.  Also with hardPityRare <= pityStartRare.
C15_HardPityDraw ==
    (pc = "guarantee" /\ pityCounter6 >= cfg.hardPity6 /\ pc' # "returned")
        => pc' = "coin" /\ pityCounter6' = 0
C15_HardPityBounds ==
    /\ [](cfg.hardPity6 >= 1 => pityCounter6 <= cfg.hardPity6)
    /\ [][cfg.hardPity6 >= 1 => C15_HardPityDraw]_vars

\* the hard pity alone forced the rare-tier outcome, in a configuration with
\* hardPityRare <= pityStartRare
C15_Witness ==
    /\ pc = "coin"
    /\ cfg.baseRate6 = 0
    /\ cfg.hardPity6 <= cfg.pityStart6
    /\ pulls = cfg.hardPity6
    /\ Guarantee # pulls

\* C17: a draw with a rare-tier outcome resets the rare-pity counter only and
\* leaves the common-pity counter at its incremented value; a draw without
\* one never resets the rare-pity counter; no draw resets both.
C17_Draw ==
    pc = "guarantee" =>
        /\ pityCounter6 >= 1
        /\ pityCounter5 >= 1
        /\ pc' = "coin" => pityCounter6' = 0 /\ pityCounter5' = pityCounter5
        /\ pc' = "loop" => pityCounter6' = pityCounter6
        /\ ~(pityCounter6' = 0 /\ pityCounter5' = 0)
C17_Coin ==
    pc = "coin" =>
        pityCounter6' = pityCounter6 /\ pityCounter5' = pityCounter5
C17_RareExcludesCommon == [][C17_Draw /\ C17_Coin]_vars

\* a rare-tier outcome on a draw on which the common tier would have hit
C17_Witness ==
    /\ pc = "coin"
    /\ pityCounter6 = 0
    /\ pityCounter5 >= cfg.hardPity5

\* C18 as claimed: the common-pity counter never exceeds hardPityCommon.
C18_CommonPityBounded == pityCounter5 <= cfg.hardPity5

\* the rare-tier outcomes of the session so far
RareOutcomes == offTarget + (IF pc = "coin" \/ gotTarget THEN 1 ELSE 0)

\* C18 as amended: a draw without a rare-tier outcome on which the
\* common-pity counter has reached hardPityCommon resets it, and after such a
\* draw the counter is below hardPityCommon; a rare-tier draw leaves the
\* counter alone, so that it exceeds hardPityCommon by at most the number of
\* the session's rare-tier outcomes.
C18_NoRareDraw ==
    (pc = "guarantee" /\ pc' = "loop")
        => /\ pityCounter5 >= cfg.hardPity5 => pityCounter5' = 0
           /\ pityCounter5' < cfg.hardPity5
C18_CommonPityBoundedByRares ==
    /\ [](pityCounter5 <= cfg.hardPity5 + RareOutcomes)
    /\ [][C18_NoRareDraw]_vars

\* the counter above hardPityCommon after a rare-tier outcome
C18_Witness ==
    /\ pc = "guarantee"
    /\ pityCounter5 > cfg.hardPity5
    /\ offTarget > 0

\* the rare-tier probability of the specification, in hundredths
RareProbability(c, n) ==
    IF n >= c.hardPity6 THEN One
    ELSE IF n <= c.pityStart6 THEN c.baseRate6
    ELSE IF c.baseRate6 + (n - c.pityStart6) * c.pityInc6 < One
         THEN c.baseRate6 + (n - c.pityStart6) * c.pityInc6
         ELSE One

\* C19: the rare-tier probability of a draw with rare-pity counter n is
\* baseRateRare for n <= pityStartRare, n < hardPityRare; the escalated value
\* clamped to 1 for pityStartRare < n < hardPityRare; 1 for n >= hardPityRare;
\* it lies in [0, 1] and does not decrease in n.
C19_RareProbability ==
    /\ pc = "guarantee" =>
          CurrentRate6(cfg, pityCounter6) = RareProbability(cfg, pityCounter6)
    /\ \A n \in 0..(MaxHardPity6 + 1) :
          /\ CurrentRate6(cfg, n) = RareProbability(cfg, n)
          /\ CurrentRate6(cfg, n) >= 0
          /\ CurrentRate6(cfg, n) <= One
          /\ CurrentRate6(cfg, n) <= CurrentRate6(cfg, n + 1)

\* a draw whose escalated probability is above 1 before the clamp
C19_Witness ==
    /\ pc = "guarantee"
    /\ pityCounter6 > cfg.pityStart6
    /\ pityCounter6 < cfg.hardPity6
    /\ cfg.baseRate6 + (pityCounter6 - cfg.pityStart6) * cfg.pityInc6 > One

(* ================== further properties of the runs ===================== *)
\* the runs scheduled and not yet started, and the run being computed
InFlight == timers + (IF pc = "idle" THEN 0 ELSE 1)

\* C13: runs are serialized by the busy flag.  From the trigger until the
\* result is published, loading is true and the trigger is disabled; never
\* are two runs scheduled or in flight; the flag is set before the deferred
\* computation starts and cleared only when the result has been set.
C13_Busy ==
    /\ InFlight <= 1
    /\ loading <=> InFlight = 1
    /\ loading => ~TriggerEnabled(loading)
C13_FlagStep ==
    /\ (~loading /\ loading') => (pc' = "idle" /\ timers' = 1)
    /\ (loading /\ ~loading') => (Publishes /\ result' # Null)
    /\ Publishes => ~loading'
C13_Serialized == []C13_Busy /\ [][C13_FlagStep]_vars

\* a second run in flight, after the first has published its result
C13_Witness ==
    /\ pc = "returned"
    /\ loading
    /\ timers = 0
    /\ Published

\* C20: after every iteration of the aggregation, triggeredGuaranteeCount is
\* counts[targetGuarantee] when targetGuarantee > 0 and 0 when it is 0, and
\* it never exceeds the number of sessions.
C20_GuaranteeCount ==
    /\ triggeredGuaranteeCount =
          (IF Guarantee > 0 THEN CountOf(counts, Guarantee) ELSE 0)
    /\ triggeredGuaranteeCount <= sessionCount

\* two sessions accumulated, one ended by the guarantee and one by the target
C20_Witness ==
    /\ pc = "while"
    /\ Guarantee > 0
    /\ sessionCount = 2
    /\ triggeredGuaranteeCount = 1

(* ============== properties of sessions on a playback list ============== *)
IsPrefix(s, t) == Len(s) <= Len(t) /\ SubSeq(t, 1, Len(s)) = s
SecondRun == Len(traces) = 2
FirstCfg == traces[1][1].cfg

\* C11: given the same configuration and the same playback list of random
\* values, two runs of the session simulator step through identical states
\* and return the identical (pulls, triggeredGuarantee) pair.
C11_Reproducible ==
    (SecondRun /\ cfg = FirstCfg) =>
        /\ IsPrefix(traces[2], traces[1])
        /\ Returned => /\ traces[2] = traces[1]
                       /\ ret = traces[1][Len(traces[1])].ret

\* the second run of a session that took random decisions has returned
C11_Witness ==
    /\ SecondRun
    /\ cfg = FirstCfg
    /\ Returned
    /\ ~ret.triggeredGuarantee
    /\ ret.pulls >= 2
    /\ playback.at = MaxTape + 1

\* what the rare tier of a session state is
RareView(s) ==
    [ pc |-> s.pc, pulls |-> s.pulls, pityCounter6 |-> s.pityCounter6,
      gotTarget |-> s.gotTarget, ret |-> s.ret ]
RareViews(t) == [i \in DOMAIN t |-> RareView(t[i])]

\* the second run has the rare tier and the guarantee of the first and
\* another common tier
C16_Case ==
    /\ SecondRun
    /\ SameRareTier(cfg, FirstCfg)
    /\ (cfg.baseRate5 # FirstCfg.baseRate5 \/ cfg.hardPity5 # FirstCfg.hardPity5)

\* C16: two sessions on the same random sequence, with the same rare tier
\* and targetGuarantee and different baseRateCommon and hardPityCommon,
\* return the same (pulls, triggeredGuarantee) and have the same draw counter
\* and rare-pity counter after every draw.
C16_CommonTierIrrelevant ==
    C16_Case =>
        /\ IsPrefix(RareViews(traces[2]), RareViews(traces[1]))
        /\ Returned => /\ RareViews(traces[2]) = RareViews(traces[1])
                       /\ ret = traces[1][Len(traces[1])].ret

\* both common-tier settings differ and the common-pity counters of the two
\* sessions have differed
C16_Witness ==
    /\ C16_Case
    /\ cfg.baseRate5 # FirstCfg.baseRate5
    /\ cfg.hardPity5 # FirstCfg.hardPity5
    /\ Returned
    /\ ret.pulls >= 2
    /\ \E i \in DOMAIN traces[2] :
          traces[2][i].pityCounter5 # traces[1][i].pityCounter5

====
